---- MODULE Spec2Model ----
(***************************************************************************)
(* Model of cat/looking_glass/agent_manager.py: AgentManager.execute_agent *)
(* and the two paths it drives, execute_tool_agent (an AgentExecutor over  *)
(* an LLMSingleActionAgent with ToolOutputParser) and execute_memory_chain *)
(* (one LLMChain call).                                                    *)
(*                                                                         *)
(* Text is modelled as a sequence of tokens:                               *)
(*   "FA"   the marker "Final Answer:"                                     *)
(*   "C1"   the two lines "Action: t1" / "Action Input: x"                 *)
(*   "C2"   the two lines "Action: t2" / "Action Input: x"                 *)
(*   "AB"   a line "Action: t1" that no "Action Input:" line follows       *)
(*   "OBS"  the marker "\nObservation:"                                    *)
(*   "w"    a word, "q" the one-character text "?", "sp" white space       *)
(***************************************************************************)
EXTENDS Integers, Sequences, FiniteSets

\* ---------------------------------------------------------------- bounds
\* longest LLM generation, in tokens
MaxLen == 3
\* AgentExecutor's iteration limit (max_iterations is not passed at
\* agent_manager.py:73-78, so the executor's own default applies; the model
\* runs it scaled down)
MaxIterations == 2

\* ---------------------------------------------------------------- text
Alphabet == {"FA", "C1", "C2", "AB", "OBS", "w", "q", "sp"}

Texts == UNION {[1..n -> Alphabet] : n \in 0..MaxLen}

Range(s) == {s[i] : i \in 1..Len(s)}

\* index of the first token of s that is in S, 0 when there is none
FirstIdx(s, S) ==
  IF \E i \in 1..Len(s) : s[i] \in S
  THEN CHOOSE i \in 1..Len(s) : s[i] \in S /\ \A j \in 1..(i-1) : s[j] \notin S
  ELSE 0

\* the text "?" the orchestrator compares against
Sentinel == <<"q">>

\* stop=["\nObservation:"] of the agent
StopNone == <<>>
\* variant: the agent is built without stop sequences
ToolAgentStopMissing == <<>>
ToolAgentStop == <<"OBS">>

\* the completion service: generation cut at the first stop sequence, the
\* stop sequence itself not returned
Complete(raw, stop) ==
  IF FirstIdx(raw, Range(stop)) = 0 THEN raw
  ELSE SubSeq(raw, 1, FirstIdx(raw, Range(stop)) - 1)

\* ---------------------------------------------------------------- parser
\* ToolOutputParser lives in cat/looking_glass/output_parser.py; it is built
\* with no argument (agent_manager.py:66), so it never sees the tool list.
\* Its grammar follows the design description: "Final Answer:" wins when it
\* comes before any "Action:", else the first "Action:"/"Action Input:" pair
\* is the step, else the text is malformed.
ActionMarkers == {"C1", "C2", "AB"}
CallTokens == {"C1", "C2"}
LineStarts == {"FA", "C1", "C2", "AB", "OBS"}

ToolOf(tok) == IF tok = "C1" THEN "t1" ELSE "t2"

RECURSIVE StripLeft(_)
StripLeft(s) ==
  IF s # <<>> /\ Head(s) = "sp" THEN StripLeft(Tail(s)) ELSE s

RECURSIVE StripRight(_)
StripRight(s) ==
  IF s # <<>> /\ s[Len(s)] = "sp" THEN StripRight(SubSeq(s, 1, Len(s) - 1)) ELSE s

Trim(s) == StripRight(StripLeft(s))

\* the rest of the line that starts at token i
LineAfter(s, i) ==
  LET rest == SubSeq(s, i + 1, Len(s))
      nxt  == FirstIdx(rest, LineStarts)
  IN  IF nxt = 0 THEN rest ELSE SubSeq(rest, 1, nxt - 1)

NoStep == [kind |-> "none", text |-> <<>>, tool |-> "", tool_input |-> ""]
FinalAnswer(t) == [kind |-> "FinalAnswer", text |-> t, tool |-> "", tool_input |-> ""]
ToolCall(n, i) == [kind |-> "ToolCall", text |-> <<>>, tool |-> n, tool_input |-> i]
Malformed == [kind |-> "Malformed", text |-> <<>>, tool |-> "", tool_input |-> ""]

\* variant: a final answer anywhere in the text wins
ParseFinalAnywhere(text) == FirstIdx(text, {"FA"}) # 0

ParseFinalFirst(text) ==
  LET fa  == FirstIdx(text, {"FA"})
      act == FirstIdx(text, ActionMarkers)
  IN  fa # 0 /\ (act = 0 \/ fa < act)

ToolOutputParser(text) ==
  LET fa   == FirstIdx(text, {"FA"})
      call == FirstIdx(text, CallTokens)
  IN  IF ParseFinalFirst(text) THEN FinalAnswer(Trim(LineAfter(text, fa)))
      ELSE IF call # 0 THEN ToolCall(ToolOf(text[call]), "x")
      ELSE Malformed

\* ---------------------------------------------------------------- inputs
MemoryVariables == {"input", "chat_history", "episodic_memory", "declarative_memory"}

DefaultInputVariables == MemoryVariables \cup {"agent_scratchpad"}

\* what the caller passes as agent_input: the keys it supplies
AgentInputs ==
  {MemoryVariables, MemoryVariables \ {"chat_history"}, MemoryVariables \ {"input"}}

\* answers of the hooks
PrefixChoices == {<<"P1">>, <<"P2", "{input}">>, <<"P3", "{tools}">>}
InstructionChoices == {<<"I">>}
SuffixChoices == {<<"{chat_history}", "S">>}
InputVariableChoices ==
  {DefaultInputVariables, DefaultInputVariables \cup {"extra"},
   DefaultInputVariables \ {"chat_history"}}
ToolLists == {<<>>, <<"t1">>, <<"t2">>, <<"t1", "t2">>}

\* what a tool returns, and the messages of the errors it raises
ToolResults == {"r"}
ToolErrors == {"e"}

\* completions of the memory prompt: an answer, "?", an action-shaped text,
\* a final-answer-shaped text, a text with the "\nObservation:" marker
MemoryTexts == {<<"w">>, <<"q">>, <<"C1">>, <<"FA", "w">>, <<"w", "OBS", "w">>}

\* AgentExecutor's answer when it stops on its iteration limit
StoppedOutput == <<"stopped">>

HookNames == {"agent_prompt_prefix", "agent_prompt_instructions", "agent_prompt_suffix",
              "before_agent_creates_prompt", "agent_allowed_tools"}

\* ---------------------------------------------------------------- records
NoOut == [keys |-> {}, output |-> <<>>, text |-> <<>>, intermediate_steps |-> <<>>]

\* the dict AgentExecutor returns: its inputs, "output" and, with
\* return_intermediate_steps=True, "intermediate_steps"
\* variant: the record carries the last step only
ToolRecordLastStep(inp, output, steps) ==
  [keys |-> inp \cup {"output", "intermediate_steps"},
   output |-> output, text |-> <<>>,
   intermediate_steps |-> IF steps = <<>> THEN <<>> ELSE <<steps[Len(steps)]>>]

ToolRecord(inp, output, steps) ==
  [keys |-> inp \cup {"output", "intermediate_steps"},
   output |-> output, text |-> <<>>, intermediate_steps |-> steps]

\* the dict LLMChain returns, its inputs and "text", after out["output"] = out["text"]
MemoryRecord(inp, text) ==
  [keys |-> inp \cup {"text", "output"},
   output |-> text, text |-> text, intermediate_steps |-> <<>>]

NoRequest == [template |-> <<>>, tools |-> <<>>, scratchpad |-> <<>>, stop |-> <<>>]

ToolPrompt(tools, steps) ==
  [template |-> <<"ToolPromptTemplate">>, tools |-> tools, scratchpad |-> steps,
   stop |-> ToolAgentStop]

MemoryPrompt(prefix, suffix) ==
  [template |-> prefix \o suffix, tools |-> <<>>, scratchpad |-> <<>>, stop |-> StopNone]

\* ---------------------------------------------------------------- state
VARIABLES
  pc,                  \* where the turn is
  agent_input,         \* keys of the caller's agent_input
  prompt_prefix, prompt_format_instructions, prompt_suffix,
  input_variables,     \* result of the before_agent_creates_prompt hook
  allowed_tools,
  tools_are_enough,
  out,                 \* the local `out` of execute_agent
  tool_out,            \* what execute_tool_agent returned
  memory_out,          \* what execute_memory_chain returned
  intermediate_steps,  \* the executor's scratchpad
  iterations,
  completion,          \* text handed to the output parser
  generated,           \* what the model generated for that completion
  parsed,              \* the parser's last result
  llm_request,         \* the last completion request
  hook_calls,          \* hook name -> number of calls
  tool_agent_runs, memory_chain_runs,
  tool_llm_calls, memory_llm_calls,
  invoked,             \* names of the tools invoked, in order
  tool_failures,       \* messages of the errors the invoked tools raised
  error, error_in,     \* exception that left execute_agent, and its origin
  answers,             \* with two turns: the generations this turn was given
  running,             \* the turn that is running: 0 alone, 1 or 2 of two
  suspended            \* with two turns: the frame of the turn that waits

vars == <<pc, agent_input, prompt_prefix, prompt_format_instructions, prompt_suffix,
          input_variables, allowed_tools, tools_are_enough, out, tool_out, memory_out,
          intermediate_steps, iterations, completion, generated, parsed, llm_request,
          hook_calls, tool_agent_runs, memory_chain_runs, tool_llm_calls,
          memory_llm_calls, invoked, tool_failures, error, error_in, answers,
          running, suspended>>

hookVars == <<prompt_prefix, prompt_format_instructions, prompt_suffix,
              input_variables, allowed_tools>>
loopVars == <<intermediate_steps, iterations, completion, generated, parsed>>
countVars == <<tool_agent_runs, memory_chain_runs, tool_llm_calls, memory_llm_calls>>
errVars == <<error, error_in>>

\* the collaborators' answers: the full sets for one turn alone, a few
\* representative ones for each of two concurrent turns
TwoTurns == running # 0

TwoTurnTexts ==
  {<<"FA", "w">>, <<"FA", "q">>, <<"C1">>, <<"C2", "OBS", "w">>}
TwoTurnMemoryTexts == {<<"w">>, <<"q">>}
TwoTurnPrefixes == {<<"P1">>, <<"P2", "{input}">>}
TwoTurnToolLists == {<<>>, <<"t1">>}

Generations == IF TwoTurns THEN TwoTurnTexts ELSE Texts
MemoryGenerations == IF TwoTurns THEN TwoTurnMemoryTexts ELSE MemoryTexts
PrefixAnswers == IF TwoTurns THEN TwoTurnPrefixes ELSE PrefixChoices
InputVariableAnswers ==
  IF TwoTurns THEN {DefaultInputVariables} ELSE InputVariableChoices
ToolListAnswers == IF TwoTurns THEN TwoTurnToolLists ELSE ToolLists

\* the record of what the turn was given, kept when two turns run
Logged(raw) == IF TwoTurns THEN Append(answers, raw) ELSE answers

\* the locals of a turn when execute_agent is entered
StartOfTurn ==
  /\ pc = "hook_prefix"
  /\ prompt_prefix = <<>>
  /\ prompt_format_instructions = <<>>
  /\ prompt_suffix = <<>>
  /\ input_variables = DefaultInputVariables
  /\ allowed_tools = <<>>
  /\ tools_are_enough = FALSE
  /\ out = NoOut
  /\ tool_out = NoOut
  /\ memory_out = NoOut
  /\ intermediate_steps = <<>>
  /\ iterations = 0
  /\ completion = <<>>
  /\ generated = <<>>
  /\ parsed = NoStep
  /\ llm_request = NoRequest
  /\ hook_calls = [h \in HookNames |-> 0]
  /\ tool_agent_runs = 0
  /\ memory_chain_runs = 0
  /\ tool_llm_calls = 0
  /\ memory_llm_calls = 0
  /\ invoked = <<>>
  /\ tool_failures = <<>>
  /\ error = "none"
  /\ error_in = "none"
  /\ answers = <<>>

Init ==
  /\ StartOfTurn
  /\ agent_input \in AgentInputs
  /\ running = 0
  /\ suspended = <<>>

\* variant: the hook is executed a second time
CalledTwice(h) == [hook_calls EXCEPT ![h] = @ + 2]

Called(h) == [hook_calls EXCEPT ![h] = @ + 1]

\* an exception leaves execute_agent: nothing in it catches
Raise(e, where) ==
  /\ pc' = "raised"
  /\ error' = e
  /\ error_in' = where

\* ---------------------------------------------------------------- execute_agent
HookPrefix ==
  /\ pc = "hook_prefix"
  /\ prompt_prefix' \in PrefixAnswers
  /\ hook_calls' = Called("agent_prompt_prefix")
  /\ pc' = "hook_instructions"
  /\ UNCHANGED <<running, suspended, answers, memory_out, tool_failures, agent_input, prompt_format_instructions, prompt_suffix, input_variables,
                 allowed_tools, tools_are_enough, out, tool_out, loopVars, llm_request,
                 countVars, invoked, errVars>>

HookInstructions ==
  /\ pc = "hook_instructions"
  /\ prompt_format_instructions' \in InstructionChoices
  /\ hook_calls' = Called("agent_prompt_instructions")
  /\ pc' = "hook_suffix"
  /\ UNCHANGED <<running, suspended, answers, memory_out, tool_failures, agent_input, prompt_prefix, prompt_suffix, input_variables,
                 allowed_tools, tools_are_enough, out, tool_out, loopVars, llm_request,
                 countVars, invoked, errVars>>

HookSuffix ==
  /\ pc = "hook_suffix"
  /\ prompt_suffix' \in SuffixChoices
  /\ hook_calls' = Called("agent_prompt_suffix")
  /\ pc' = "hook_input_variables"
  /\ UNCHANGED <<running, suspended, answers, memory_out, tool_failures, agent_input, prompt_prefix, prompt_format_instructions, input_variables,
                 allowed_tools, tools_are_enough, out, tool_out, loopVars, llm_request,
                 countVars, invoked, errVars>>

HookInputVariables ==
  /\ pc = "hook_input_variables"
  /\ input_variables' \in InputVariableAnswers
  /\ hook_calls' = Called("before_agent_creates_prompt")
  /\ pc' = "hook_allowed_tools"
  /\ UNCHANGED <<running, suspended, answers, memory_out, tool_failures, agent_input, prompt_prefix, prompt_format_instructions, prompt_suffix,
                 allowed_tools, tools_are_enough, out, tool_out, loopVars, llm_request,
                 countVars, invoked, errVars>>

\* allowed_tools = ...; tools_are_enough = False; if len(allowed_tools) > 0
\* variant: the test is len(allowed_tools) >= 0
RunsToolAgentAlways(tools) == Len(tools) >= 0

RunsToolAgent(tools) == Len(tools) > 0

\* variant: tools_are_enough starts True
ToolsAreEnoughInitiallyTrue == TRUE

\* tools_are_enough = False
ToolsAreEnoughInitially == FALSE

\* with no tool agent to run, `if not tools_are_enough` is next
HookAllowedTools ==
  /\ pc = "hook_allowed_tools"
  /\ allowed_tools' \in ToolListAnswers
  /\ hook_calls' = Called("agent_allowed_tools")
  /\ tools_are_enough' = ToolsAreEnoughInitially
  /\ pc' = IF RunsToolAgent(allowed_tools') THEN "tool_agent"
           ELSE IF ~tools_are_enough' THEN "memory_chain"
           ELSE "returned"
  /\ UNCHANGED <<running, suspended, answers, memory_out, tool_failures, agent_input, prompt_prefix, prompt_format_instructions, prompt_suffix,
                 input_variables, out, tool_out, loopVars, llm_request,
                 countVars, invoked, errVars>>

\* ---------------------------------------------------------------- execute_tool_agent
\* input_variables=["input", "intermediate_steps"]: the executor wants "input"
\* from the caller, intermediate_steps it supplies itself
ToolAgentInputKeys == {"input"}

\* variant: the executor is given every tool there is, not the allowed ones
AllowedToolNamesAll(tools) == {"t1", "t2"}

AllowedToolNames(tools) == Range(tools)

\* out = self.execute_tool_agent(agent_input, allowed_tools): the prompt, the
\* chain, the agent and the executor are built, the executor is entered
ExecuteToolAgent ==
  /\ pc = "tool_agent"
  /\ tool_agent_runs' = tool_agent_runs + 1
  /\ intermediate_steps' = <<>>
  /\ iterations' = 0
  /\ IF ToolAgentInputKeys \subseteq agent_input
     THEN /\ pc' = "tool_loop"
          /\ UNCHANGED errVars
     ELSE Raise("MissingVariableError", "tool_agent")
  /\ UNCHANGED <<running, suspended, answers, memory_out, tool_failures, agent_input, hookVars, tools_are_enough, out, tool_out, completion,
                 generated, parsed, llm_request, hook_calls, memory_chain_runs,
                 tool_llm_calls, memory_llm_calls, invoked>>

\* variant: the limit is tested with <=
ShouldContinueOneMore(n) == n <= MaxIterations

\* the executor's loop condition
ShouldContinue(n) == n < MaxIterations

\* one cycle: the prompt is rendered with the scratchpad and a completion is
\* requested with the agent's stop sequences
ToolLoopPlan ==
  /\ pc = "tool_loop"
  /\ ShouldContinue(iterations)
  /\ \E raw \in Generations :
       /\ llm_request' = ToolPrompt(allowed_tools, intermediate_steps)
       /\ completion' = Complete(raw, llm_request'.stop)
       /\ generated' = raw
       /\ answers' = Logged(raw)
  /\ tool_llm_calls' = tool_llm_calls + 1
  /\ pc' = "tool_parse"
  /\ UNCHANGED <<running, suspended, memory_out, tool_failures, agent_input, hookVars, tools_are_enough, out, tool_out,
                 intermediate_steps, iterations, parsed, hook_calls, tool_agent_runs,
                 memory_chain_runs, memory_llm_calls, invoked, errVars>>

\* the completion request itself fails
ToolLoopLLMFails ==
  /\ pc = "tool_loop"
  /\ ShouldContinue(iterations)
  /\ llm_request' = ToolPrompt(allowed_tools, intermediate_steps)
  /\ tool_llm_calls' = tool_llm_calls + 1
  /\ Raise("LLMError", "tool_agent")
  /\ UNCHANGED <<running, suspended, answers, memory_out, tool_failures, agent_input, hookVars, tools_are_enough, out, tool_out, loopVars,
                 hook_calls, tool_agent_runs, memory_chain_runs, memory_llm_calls,
                 invoked>>

\* the loop condition fails: the executor answers with its stopped response
\* (no early-stopping option is passed at agent_manager.py:73-78), a fixed text
\* that is not "?"
ToolLoopCapped ==
  /\ pc = "tool_loop"
  /\ ~ShouldContinue(iterations)
  /\ tool_out' = ToolRecord(agent_input, StoppedOutput, intermediate_steps)
  /\ pc' = "tool_done"
  /\ UNCHANGED <<running, suspended, answers, memory_out, tool_failures, agent_input, hookVars, tools_are_enough, out, loopVars, llm_request,
                 hook_calls, countVars, invoked, errVars>>

\* output_parser.parse(completion); a parse failure is handed on like any
\* other exception
ToolLoopParse ==
  /\ pc = "tool_parse"
  /\ parsed' = ToolOutputParser(completion)
  /\ CASE parsed'.kind = "FinalAnswer" ->
            /\ tool_out' = ToolRecord(agent_input, parsed'.text, intermediate_steps)
            /\ pc' = "tool_done"
            /\ UNCHANGED errVars
       [] parsed'.kind = "ToolCall" ->
            /\ pc' = "tool_invoke"
            /\ UNCHANGED <<tool_out, errVars>>
       [] OTHER ->
            /\ Raise("MalformedOutputError", "tool_agent")
            /\ UNCHANGED tool_out
  /\ UNCHANGED <<running, suspended, answers, memory_out, tool_failures, agent_input, hookVars, tools_are_enough, out, intermediate_steps,
                 iterations, completion, generated, llm_request, hook_calls, countVars,
                 invoked>>

\* the cycle's locals (the completion, the parsed step) end with the cycle
EndCycle ==
  /\ completion' = <<>>
  /\ generated' = <<>>
  /\ parsed' = NoStep

Step(action, observation) ==
  [tool |-> action.tool, tool_input |-> action.tool_input, observation |-> observation]

\* the named tool is one of the executor's tools: it is run and answers
ToolLoopInvoke ==
  /\ pc = "tool_invoke"
  /\ parsed.tool \in AllowedToolNames(allowed_tools)
  /\ \E r \in ToolResults :
       intermediate_steps' = Append(intermediate_steps, Step(parsed, r))
  /\ invoked' = Append(invoked, parsed.tool)
  /\ iterations' = iterations + 1
  /\ EndCycle
  /\ pc' = "tool_loop"
  /\ UNCHANGED <<running, suspended, answers, memory_out, tool_failures, agent_input, hookVars, tools_are_enough, out,
                 tool_out, llm_request, hook_calls, countVars, errVars>>

\* the named tool is run and raises: the executor hands the exception on, and
\* neither execute_tool_agent nor execute_agent catches it
ToolLoopToolFails ==
  /\ pc = "tool_invoke"
  /\ parsed.tool \in AllowedToolNames(allowed_tools)
  /\ invoked' = Append(invoked, parsed.tool)
  /\ \E e \in ToolErrors :
       /\ tool_failures' = Append(tool_failures, e)
       /\ Raise(e, "tool_agent")
  /\ UNCHANGED <<running, suspended, answers, memory_out, agent_input, hookVars, tools_are_enough, out, tool_out, loopVars,
                 llm_request, hook_calls, countVars>>

\* variant: a name that is none of the executor's tools is an error
ToolLoopInvalidToolRaises ==
  /\ pc = "tool_invoke"
  /\ parsed.tool \notin AllowedToolNames(allowed_tools)
  /\ Raise("UnknownToolError", "tool_agent")
  /\ UNCHANGED <<running, suspended, answers, memory_out, tool_failures, agent_input, hookVars, tools_are_enough, out,
                 tool_out, loopVars, llm_request, hook_calls, countVars, invoked>>

\* the named tool is none of the executor's tools: no tool is run, the
\* observation says the name is not a valid tool
ToolLoopInvalidTool ==
  /\ pc = "tool_invoke"
  /\ parsed.tool \notin AllowedToolNames(allowed_tools)
  /\ intermediate_steps' = Append(intermediate_steps, Step(parsed, "invalid"))
  /\ iterations' = iterations + 1
  /\ EndCycle
  /\ pc' = "tool_loop"
  /\ UNCHANGED <<running, suspended, answers, memory_out, tool_failures, agent_input, hookVars, tools_are_enough, out,
                 tool_out, llm_request, hook_calls, countVars, invoked, errVars>>

\* tools_are_enough = out["output"] != "?"
\* variant: the output is compared with the empty text
ToolsAreEnoughNonEmpty(output) == output # <<>>

\* variant: the output is searched for "?" instead of compared with it
ToolsAreEnoughNoMark(output) == "q" \notin Range(output)

ToolsAreEnough(output) == output # Sentinel

\* back in execute_agent: out is the executor's record; it is returned when
\* the tools were enough
AfterToolAgent ==
  /\ pc = "tool_done"
  /\ out' = tool_out
  /\ tools_are_enough' = ToolsAreEnough(tool_out.output)
  /\ pc' = IF tools_are_enough' THEN "returned" ELSE "memory_chain"
  /\ EndCycle
  /\ UNCHANGED <<running, suspended, answers, memory_out, tool_failures, agent_input, hookVars, tool_out,
                 intermediate_steps, iterations, llm_request, hook_calls, countVars,
                 invoked, errVars>>

\* ---------------------------------------------------------------- execute_memory_chain
\* a key the memory prompt's input_variables list and the caller did not pass
\* placeholders of a template
PlaceholderToken ==
  [t \in {"{input}", "{chat_history}", "{episodic_memory}", "{declarative_memory}",
          "{tools}"} |->
     CASE t = "{input}" -> "input"
       [] t = "{chat_history}" -> "chat_history"
       [] t = "{episodic_memory}" -> "episodic_memory"
       [] t = "{declarative_memory}" -> "declarative_memory"
       [] OTHER -> "tools"]

TemplateVariables(template) ==
  {PlaceholderToken[t] : t \in Range(template) \cap DOMAIN PlaceholderToken}

\* a placeholder of prompt_prefix + prompt_suffix that is none of the memory
\* prompt's input_variables
MemoryTemplateUnknown(prefix, suffix) ==
  TemplateVariables(prefix \o suffix) \ MemoryVariables

\* variant: the memory prompt lists "input" alone
MemoryMissingInputOnly(inp) == {"input"} \ inp

MemoryMissing(inp) == MemoryVariables \ inp

\* variant: the chain is run again when its completion is "?"
ExecuteMemoryChainRetry ==
  /\ pc = "memory_chain"
  /\ memory_chain_runs' = memory_chain_runs + 1
  /\ llm_request' = MemoryPrompt(prompt_prefix, prompt_suffix)
  /\ memory_llm_calls' = memory_llm_calls + 1
  /\ \E raw \in MemoryTexts :
       /\ memory_out' = MemoryRecord(agent_input, Complete(raw, llm_request'.stop))
       /\ pc' = IF raw = Sentinel THEN "memory_chain" ELSE "returned"
  /\ out' = memory_out'
  /\ UNCHANGED <<running, suspended, answers, tool_failures, agent_input, hookVars, tools_are_enough, tool_out, loopVars,
                 hook_calls, tool_agent_runs, tool_llm_calls, invoked, errVars>>

\* out = self.execute_memory_chain(agent_input, prompt_prefix, prompt_suffix);
\* return out
ExecuteMemoryChain ==
  /\ pc = "memory_chain"
  /\ memory_chain_runs' = memory_chain_runs + 1
  /\ IF MemoryTemplateUnknown(prompt_prefix, prompt_suffix) # {}
        \/ MemoryMissing(agent_input) # {}
     THEN /\ Raise("MissingVariableError", "memory_chain")
          /\ UNCHANGED <<out, memory_out, llm_request, memory_llm_calls, answers>>
     ELSE /\ llm_request' = MemoryPrompt(prompt_prefix, prompt_suffix)
          /\ memory_llm_calls' = memory_llm_calls + 1
          /\ \/ /\ \E raw \in MemoryGenerations :
                     /\ memory_out' = MemoryRecord(agent_input, Complete(raw, llm_request'.stop))
                     /\ answers' = Logged(raw)
                /\ out' = memory_out'
                /\ pc' = "returned"
                /\ UNCHANGED errVars
             \/ /\ Raise("LLMError", "memory_chain")
                /\ UNCHANGED <<out, memory_out, answers>>
  /\ UNCHANGED <<running, suspended, tool_failures, agent_input, hookVars, tools_are_enough, tool_out, loopVars,
                 hook_calls, tool_agent_runs, tool_llm_calls, invoked>>

\* ---------------------------------------------------------------- specification
Next ==
  \/ HookPrefix
  \/ HookInstructions
  \/ HookSuffix
  \/ HookInputVariables
  \/ HookAllowedTools
  \/ ExecuteToolAgent
  \/ ToolLoopPlan
  \/ ToolLoopLLMFails
  \/ ToolLoopCapped
  \/ ToolLoopParse
  \/ ToolLoopInvoke
  \/ ToolLoopToolFails
  \/ ToolLoopInvalidTool
  \/ AfterToolAgent
  \/ ExecuteMemoryChain

Spec == Init /\ [][Next]_vars

\* ---------------------------------------------------------------------
\* Two turns on one AgentManager.  The manager's only attribute is the cat;
\* everything a turn works on is a local of its own call of execute_agent,
\* execute_tool_agent and execute_memory_chain.  The variables above are the
\* locals of the turn that is running; those of the waiting turn are kept in
\* suspended until the scheduler hands the processor over.

\* the locals of the running turn
Frame ==
  [pc |-> pc,
   agent_input |-> agent_input,
   prompt_prefix |-> prompt_prefix,
   prompt_format_instructions |-> prompt_format_instructions,
   prompt_suffix |-> prompt_suffix,
   input_variables |-> input_variables,
   allowed_tools |-> allowed_tools,
   tools_are_enough |-> tools_are_enough,
   out |-> out,
   tool_out |-> tool_out,
   memory_out |-> memory_out,
   intermediate_steps |-> intermediate_steps,
   iterations |-> iterations,
   completion |-> completion,
   generated |-> generated,
   parsed |-> parsed,
   llm_request |-> llm_request,
   hook_calls |-> hook_calls,
   tool_agent_runs |-> tool_agent_runs,
   memory_chain_runs |-> memory_chain_runs,
   tool_llm_calls |-> tool_llm_calls,
   memory_llm_calls |-> memory_llm_calls,
   invoked |-> invoked,
   tool_failures |-> tool_failures,
   error |-> error,
   error_in |-> error_in,
   answers |-> answers]

TwoTurnInputs == {MemoryVariables, MemoryVariables \ {"chat_history"}}

\* variant: the scratchpad is an attribute of the manager, one for all turns
ScratchpadOnManager(turn) == intermediate_steps

\* the scratchpad a turn finds when it goes on: its own executor's
ScratchpadOf(turn) == turn.intermediate_steps

\* the running turn is preempted and the waiting one goes on where it was
Switch ==
  /\ TwoTurns
  /\ running' = 3 - running
  /\ suspended' = Frame
  /\ intermediate_steps' = ScratchpadOf(suspended)
  /\ pc' = suspended.pc
  /\ agent_input' = suspended.agent_input
  /\ prompt_prefix' = suspended.prompt_prefix
  /\ prompt_format_instructions' = suspended.prompt_format_instructions
  /\ prompt_suffix' = suspended.prompt_suffix
  /\ input_variables' = suspended.input_variables
  /\ allowed_tools' = suspended.allowed_tools
  /\ tools_are_enough' = suspended.tools_are_enough
  /\ out' = suspended.out
  /\ tool_out' = suspended.tool_out
  /\ memory_out' = suspended.memory_out
  /\ iterations' = suspended.iterations
  /\ completion' = suspended.completion
  /\ generated' = suspended.generated
  /\ parsed' = suspended.parsed
  /\ llm_request' = suspended.llm_request
  /\ hook_calls' = suspended.hook_calls
  /\ tool_agent_runs' = suspended.tool_agent_runs
  /\ memory_chain_runs' = suspended.memory_chain_runs
  /\ tool_llm_calls' = suspended.tool_llm_calls
  /\ memory_llm_calls' = suspended.memory_llm_calls
  /\ invoked' = suspended.invoked
  /\ tool_failures' = suspended.tool_failures
  /\ error' = suspended.error
  /\ error_in' = suspended.error_in
  /\ answers' = suspended.answers

\* both turns are at the entry of execute_agent, each with its own input
TwoTurnInit ==
  /\ StartOfTurn
  /\ agent_input \in TwoTurnInputs
  /\ running = 1
  /\ suspended \in {[Frame EXCEPT !.agent_input = inp] : inp \in TwoTurnInputs}

TwoTurnNext == Next \/ Switch

TwoTurnSpec == TwoTurnInit /\ [][TwoTurnNext]_vars

TypeOK ==
  /\ pc \in {"hook_prefix", "hook_instructions", "hook_suffix", "hook_input_variables",
             "hook_allowed_tools", "tool_agent", "tool_loop", "tool_parse",
             "tool_invoke", "tool_done", "memory_chain", "returned", "raised"}
  /\ iterations \in 0..MaxIterations
  /\ Len(intermediate_steps) = iterations

\* ---------------------------------------------------------------- properties
HookPcs == {"hook_prefix", "hook_instructions", "hook_suffix", "hook_input_variables",
            "hook_allowed_tools"}

HooksDone == pc \notin HookPcs

\* execute_tool_agent has returned a record
ToolAgentReturned == tool_out # NoOut

\* execute_agent is past  tools_are_enough = out["output"] != "?"
PastToolAgent == ToolAgentReturned /\ pc # "tool_done"

\* C1: with an empty allowed-tool list the tool agent is never started (no
\* tool prompt, no tool-agent completion, no tool invoked) and the record
\* returned is the one execute_memory_chain returned
C1_NoToolsOnlyMemoryChain ==
  (HooksDone /\ Len(allowed_tools) = 0) =>
    /\ tool_agent_runs = 0
    /\ tool_llm_calls = 0
    /\ llm_request.template # <<"ToolPromptTemplate">>
    /\ invoked = <<>>
    /\ tool_out = NoOut
    /\ (pc = "returned" =>
          memory_chain_runs = 1 /\ memory_out # NoOut /\ out = memory_out)

C1_Witness ==
  /\ pc = "returned"
  /\ Len(allowed_tools) = 0
  /\ memory_out # NoOut
  /\ out = memory_out

\* C2: when the tool agent's output is exactly "?", after any number of tool
\* cycles, the memory chain is run and what execute_agent returns is the
\* memory chain's record, never the tool agent's "?" record
C2_SentinelRunsMemoryChain ==
  (PastToolAgent /\ tool_out.output = <<"q">>) =>
    /\ ~tools_are_enough
    /\ (pc # "memory_chain" => memory_chain_runs = 1)
    /\ (pc = "returned" => memory_out # NoOut /\ out = memory_out /\ out # tool_out)

C2_Witness ==
  /\ pc = "returned"
  /\ tool_out.output = <<"q">>
  /\ Len(tool_out.intermediate_steps) >= 1
  /\ out = memory_out

\* C3: when the tool agent ends with an output other than "?", execute_agent
\* returns its record unchanged and the memory chain is not run; a final
\* answer in the first cycle comes with no intermediate step
C3_EnoughReturnsToolRecord ==
  /\ (PastToolAgent /\ tool_out.output # <<"q">>) =>
       /\ pc = "returned"
       /\ out = tool_out
       /\ memory_chain_runs = 0
       /\ memory_llm_calls = 0
  /\ (ToolAgentReturned /\ tool_llm_calls = 1 /\ tool_out.output # StoppedOutput) =>
       tool_out.intermediate_steps = <<>>

C3_Witness ==
  /\ pc = "returned"
  /\ tool_out.output = <<"w">>
  /\ tool_out.intermediate_steps = <<>>
  /\ out = tool_out

\* C4: no failure of the tool agent leaves execute_agent: the turn goes on to
\* the memory chain instead
C4_ToolAgentFailuresAbsorbed ==
  ~(pc = "raised" /\ error_in = "tool_agent")

\* C5: a tool agent that uses up its iterations without a final answer ends
\* with output "?" and as many intermediate steps as iterations, and the
\* memory chain is run after it
C5_CapYieldsSentinel ==
  (ToolAgentReturned /\ Len(tool_out.intermediate_steps) = MaxIterations) =>
    /\ tool_out.output = <<"q">>
    /\ (pc = "returned" => out = memory_out)

\* C6: a tool's first failure does not stop the loop; the second identical
\* failure in a row stops it, and execute_agent turns that into a memory-chain
\* run instead of a failure of the turn
C6_StuckAtSecondFailure ==
  /\ (Len(tool_failures) = 1 => pc # "raised")
  /\ (Len(tool_failures) >= 2 => error_in # "tool_agent")

\* C7: a failure of the memory chain (a variable of its prompt is missing, or
\* the completion fails) leaves execute_agent: no record is returned, and no
\* further step (no second memory chain, no tool agent) follows
C7_MemoryChainFailureState ==
  /\ memory_chain_runs <= 1
  /\ (memory_chain_runs = 1 /\ ~(MemoryVariables \subseteq agent_input)) =>
       pc = "raised" /\ error_in = "memory_chain"
  /\ (memory_chain_runs = 1 /\ "{tools}" \in Range(prompt_prefix)) =>
       pc = "raised" /\ error_in = "memory_chain"
  /\ (error_in = "memory_chain") =>
       /\ pc = "raised"
       /\ memory_out = NoOut
       /\ out \in {NoOut, tool_out}
       /\ memory_chain_runs = 1
       /\ tool_agent_runs <= 1

C7_MemoryChainFailureIsFatal ==
  /\ []C7_MemoryChainFailureState
  /\ [][error_in = "memory_chain" => FALSE]_vars

C7_Witness ==
  /\ pc = "raised"
  /\ error_in = "memory_chain"
  /\ error = "MissingVariableError"
  /\ tool_agent_runs = 1

\* C8: the memory chain's record has output equal to the completion of the
\* prompt prompt_prefix + prompt_suffix and intermediate_steps equal to the
\* empty sequence
C8_MemoryRecordShape ==
  (memory_out # NoOut) =>
    /\ llm_request.template = prompt_prefix \o prompt_suffix
    /\ "output" \in memory_out.keys
    /\ memory_out.output = memory_out.text
    /\ "intermediate_steps" \in memory_out.keys
    /\ memory_out.intermediate_steps = <<>>

\* the generation was cut at a stop sequence
StopHit == completion # generated

RealObservations(steps) == SelectSeq(steps, LAMBDA e : e.observation \in ToolResults)

\* C9: every completion of the tool agent is requested with the stop sequence
\* "\nObservation:", the text handed to the parser is the generation up to the
\* first "\nObservation:" and holds nothing of it or after it, and every
\* observation of the scratchpad is the answer of a tool that was run or the
\* executor's message for a tool that was not
C9_StopSequence ==
  /\ (llm_request.template = <<"ToolPromptTemplate">>) => llm_request.stop = <<"OBS">>
  /\ "OBS" \notin Range(completion)
  /\ \E k \in 0..Len(generated) :
       /\ completion = SubSeq(generated, 1, k)
       /\ (k < Len(generated) => generated[k + 1] = "OBS")
  /\ \A i \in 1..Len(intermediate_steps) :
       \/ intermediate_steps[i].observation \in ToolResults
       \/ /\ intermediate_steps[i].observation = "invalid"
          /\ intermediate_steps[i].tool \notin Range(allowed_tools)
  /\ Len(RealObservations(intermediate_steps)) + Len(tool_failures) = Len(invoked)

C9_Witness ==
  /\ pc = "tool_invoke"
  /\ StopHit
  /\ Len(generated) > Len(completion) + 1
  /\ Len(intermediate_steps) >= 1

\* the text t is the line that starts after the marker at index i, trimmed
IsTrimmedLine(text, i, t) ==
  LET e == CHOOSE n \in i..Len(text) :
             /\ \A j \in (i + 1)..n : text[j] \notin LineStarts
             /\ (n = Len(text) \/ text[n + 1] \in LineStarts)
  IN  \E a \in (i + 1)..(e + 1) : \E b \in i..e :
        /\ t = SubSeq(text, a, b)
        /\ \A j \in (i + 1)..(a - 1) : text[j] = "sp"
        /\ \A j \in (b + 1)..e : text[j] = "sp"
        /\ (t # <<>> => t[1] # "sp" /\ t[Len(t)] # "sp")

\* the parser's result for the completion of this cycle is at hand
ParsedThisCycle == parsed.kind # "none" /\ pc # "tool_parse"

\* C10: for a completion with both a "Final Answer:" and an "Action:" marker
\* the parser answers FinalAnswer exactly when "Final Answer:" comes first; a
\* "Final Answer: X" with no earlier "Action:" gives FinalAnswer with X
\* trimmed; after a FinalAnswer the loop ends without running a tool
C10_FinalAnswerPriority ==
  ParsedThisCycle =>
    LET fa  == FirstIdx(completion, {"FA"})
        act == FirstIdx(completion, ActionMarkers)
    IN  /\ (fa # 0 /\ act # 0) => (parsed.kind = "FinalAnswer" <=> fa < act)
        /\ (fa # 0 /\ (act = 0 \/ fa < act)) =>
             /\ parsed.kind = "FinalAnswer"
             /\ IsTrimmedLine(completion, fa, parsed.text)
        /\ (parsed.kind = "FinalAnswer") =>
             /\ pc = "tool_done"
             /\ tool_out.output = parsed.text
             /\ tool_out.intermediate_steps = intermediate_steps

C10_Witness ==
  /\ pc = "tool_done"
  /\ parsed.kind = "FinalAnswer"
  /\ FirstIdx(completion, {"FA"}) # 0
  /\ FirstIdx(completion, CallTokens) > FirstIdx(completion, {"FA"})
  /\ invoked = <<>>

ReadHooks == {"agent_prompt_prefix", "agent_prompt_instructions", "agent_prompt_suffix",
              "agent_allowed_tools"}

\* C11: in a turn each of the four read hooks (prefix, instructions, suffix,
\* allowed tools) is executed exactly once, whichever of the tool agent and
\* the memory chain run, and all four before either of them starts
C11_HooksOncePerTurn ==
  /\ \A h \in ReadHooks : hook_calls[h] <= 1
  /\ HooksDone => \A h \in ReadHooks : hook_calls[h] = 1
  /\ (tool_agent_runs > 0 \/ memory_chain_runs > 0 \/ tool_llm_calls > 0
        \/ memory_llm_calls > 0) =>
       \A h \in ReadHooks : hook_calls[h] = 1

C11_Witness ==
  /\ pc = "returned"
  /\ tool_agent_runs = 1
  /\ memory_chain_runs = 1
  /\ \A h \in ReadHooks : hook_calls[h] = 1

\* C12: a failing tool does not fail the loop: the message of its error is
\* the observation of a new scratchpad entry for that action and the loop is
\* back at its head for another cycle
C12_ToolFailureIsObservation ==
  (tool_failures # <<>>) =>
    /\ pc # "raised"
    /\ \A i \in 1..Len(tool_failures) :
         \E j \in 1..Len(intermediate_steps) :
           /\ intermediate_steps[j].observation = tool_failures[i]
           /\ intermediate_steps[j].tool \in Range(invoked)

\* the last scratchpad entry is for a name that was none of the tools
LastStepInvalid ==
  /\ intermediate_steps # <<>>
  /\ intermediate_steps[Len(intermediate_steps)].observation = "invalid"

\* C13 as stated: after a completion that names a tool outside the allowed
\* list no tool was run for it and the loop has a further cycle to run
C13_UnknownToolAlwaysAnotherCycle ==
  (pc = "tool_loop" /\ LastStepInvalid) =>
    /\ intermediate_steps[Len(intermediate_steps)].tool \notin Range(invoked)
    /\ iterations < MaxIterations

UnknownToolNamed == pc = "tool_invoke" /\ parsed.tool \notin Range(allowed_tools)

\* C13, amended: a completion that names a tool outside the allowed list
\* runs no tool and does not fail the loop; the executor's invalid-tool
\* message is the observation of a new scratchpad entry and the loop is back
\* at its head, where a further cycle runs unless the iteration limit is
\* reached
C13_UnknownToolStep ==
  UnknownToolNamed =>
    /\ pc' = "tool_loop"
    /\ error' = "none"
    /\ invoked' = invoked
    /\ tool_failures' = tool_failures
    /\ tool_out' = tool_out
    /\ intermediate_steps' =
         Append(intermediate_steps,
                [tool |-> parsed.tool, tool_input |-> parsed.tool_input,
                 observation |-> "invalid"])

C13_UnknownToolIsObservation ==
  /\ []((pc = "tool_loop" /\ iterations < MaxIterations) => ENABLED ToolLoopPlan)
  /\ [][C13_UnknownToolStep]_vars

C13_Witness ==
  /\ pc = "tool_invoke"
  /\ LastStepInvalid
  /\ parsed.tool \in Range(allowed_tools)

\* the loop has ended with a record: a final answer or the stopped response
LoopTerminalOrCapped == ToolAgentReturned

LoopFailed == pc = "raised" /\ error_in = "tool_agent"

\* C14 as stated: with every completion request and every tool call
\* returning, a loop that has ended is at TERMINAL or CAPPED
C14_LoopEndsTerminalOrCapped ==
  (LoopFailed /\ tool_llm_calls > 0) => error \in {"LLMError"} \cup ToolErrors

\* an upper bound on the steps the turn still takes: three per cycle the
\* iteration limit still allows, plus the steps around the loop
CyclesLeft == 3 * (MaxIterations - iterations)

StepsLeft ==
  CASE pc \in {"returned", "raised"} -> 0
    [] pc = "memory_chain" -> 1
    [] pc = "tool_done" -> 2
    [] pc = "tool_invoke" -> 1 + CyclesLeft
    [] pc = "tool_parse" -> 2 + CyclesLeft
    [] pc = "tool_loop" -> 3 + CyclesLeft
    [] pc = "tool_agent" -> 4 + 3 * MaxIterations
    [] pc = "hook_allowed_tools" -> 5 + 3 * MaxIterations
    [] pc = "hook_input_variables" -> 6 + 3 * MaxIterations
    [] pc = "hook_suffix" -> 7 + 3 * MaxIterations
    [] pc = "hook_instructions" -> 8 + 3 * MaxIterations
    [] OTHER -> 9 + 3 * MaxIterations

\* C14, amended: the loop runs at most MaxIterations cycles and then has
\* ended, with a final answer, with the stopped response or with an error
\* (a completion that is neither a final answer nor an action, a missing
\* "input", a failing completion or tool); execute_agent returns or fails.
\* Stated with a measure: every step lowers StepsLeft, which is never
\* negative, and a turn that has neither returned nor failed has a step to
\* take, so a turn whose calls come back ends.
C14_LoopTerminates ==
  /\ [](/\ StepsLeft >= 0
        /\ tool_llm_calls <= MaxIterations
        /\ Len(invoked) <= MaxIterations
        /\ (pc \notin {"returned", "raised"} => ENABLED Next)
        /\ (pc \in {"tool_loop", "tool_parse", "tool_invoke"} =>
              tool_out = NoOut /\ error_in = "none")
        /\ (tool_agent_runs = 1 /\ pc \notin {"tool_loop", "tool_parse", "tool_invoke"}) =>
              LoopTerminalOrCapped \/ LoopFailed)
  /\ [][StepsLeft' < StepsLeft]_vars

C14_Witness ==
  /\ pc = "tool_done"
  /\ tool_out.output = StoppedOutput
  /\ Len(tool_out.intermediate_steps) = MaxIterations
  /\ Len(invoked) = MaxIterations

\* the tools of the scratchpad entries that come from a tool that was run
ToolsRun(steps) ==
  LET real == RealObservations(steps) IN [i \in 1..Len(real) |-> real[i].tool]

\* C15, the step: the scratchpad is empty when the executor is entered; after
\* that a step leaves it as it is or, in a cycle that ends in a tool call,
\* appends one entry for the parsed action; a record the loop returns carries
\* the scratchpad as it is then
C15_ScratchpadStep ==
  /\ (pc = "tool_agent") => intermediate_steps' = <<>>
  /\ (pc # "tool_agent") =>
       \/ intermediate_steps' = intermediate_steps
       \/ /\ pc = "tool_invoke"
          /\ \E o \in ToolResults \cup {"invalid"} :
               intermediate_steps' = Append(intermediate_steps, Step(parsed, o))
  /\ (pc = "tool_invoke" /\ pc' = "tool_loop") =>
       Len(intermediate_steps') = Len(intermediate_steps) + 1
  /\ (tool_out' # tool_out) => tool_out'.intermediate_steps = intermediate_steps

\* C15: the scratchpad starts empty and is append-only, one entry per cycle
\* that ends in a tool call; the intermediate_steps returned with a final
\* answer are the accumulated scratchpad, the tool calls in the order made
C15_ScratchpadAppendOnly ==
  /\ [](/\ (pc = "tool_loop" /\ tool_llm_calls = 0) => intermediate_steps = <<>>
        /\ ToolAgentReturned =>
             /\ tool_out.intermediate_steps = intermediate_steps
             /\ ToolsRun(tool_out.intermediate_steps) = invoked)
  /\ [][C15_ScratchpadStep]_vars

C15_Witness ==
  /\ pc = "tool_done"
  /\ parsed.kind = "FinalAnswer"
  /\ Len(tool_out.intermediate_steps) >= 1
  /\ ToolsRun(tool_out.intermediate_steps) # <<>>

\* C16 as stated: an invocation of the memory chain has issued exactly one
\* completion request
C16_ExactlyOneCompletion ==
  (memory_chain_runs = 1) => memory_llm_calls = 1

\* C16, the step: an invocation of the memory chain ends the turn, with a
\* record or a failure, at most one completion request further on, and it
\* runs no tool and no cycle of the tool agent
C16_MemoryChainStep ==
  (pc = "memory_chain") =>
    /\ pc' \in {"returned", "raised"}
    /\ memory_chain_runs' = memory_chain_runs + 1
    /\ memory_llm_calls' \in {memory_llm_calls, memory_llm_calls + 1}
    /\ (pc' = "returned" => memory_llm_calls' = memory_llm_calls + 1)
    /\ invoked' = invoked
    /\ tool_llm_calls' = tool_llm_calls
    /\ tool_agent_runs' = tool_agent_runs
    /\ intermediate_steps' = intermediate_steps
    /\ tool_out' = tool_out

\* C16, amended: an invocation of the memory chain that gets past the
\* construction of its prompt issues exactly one completion request (one that
\* fails on a variable of the prompt issues none), runs no tool whatever the
\* completion text is, and is not repeated
C16_OneCompletionNoTool ==
  /\ [](/\ memory_chain_runs <= 1
        /\ memory_llm_calls <= memory_chain_runs
        /\ (memory_out # NoOut => memory_llm_calls = 1)
        /\ (memory_chain_runs = 1 /\ memory_llm_calls = 0) =>
             error = "MissingVariableError" /\ error_in = "memory_chain")
  /\ [][C16_MemoryChainStep]_vars

C16_Witness ==
  /\ pc = "returned"
  /\ memory_out.output = <<"C1">>
  /\ "t1" \in Range(allowed_tools)
  /\ tool_agent_runs = 1
  /\ memory_llm_calls = 1
  /\ invoked = <<>>

\* the names of the hook's answer the caller has to supply (the scratchpad
\* is filled in by the agent)
HookRequired == input_variables \ {"agent_scratchpad"}

\* C17: the names the before_agent_creates_prompt hook answers are the
\* variables the prompts of the turn require: a prompt is built and completed
\* only with every name of the hook's answer supplied, and a name the hook
\* dropped is not asked for
C17_HookVariablesRequired ==
  /\ (ToolAgentReturned \/ memory_out # NoOut) => HookRequired \subseteq agent_input
  /\ (error = "MissingVariableError" /\ TemplateVariables(prompt_prefix) \subseteq MemoryVariables) =>
       ~(HookRequired \subseteq agent_input)

\* what one cycle after the other makes of the generations a turn is given,
\* when nothing else touches its scratchpad: the record and the generations
\* left for the memory chain
RECURSIVE AloneLoop(_, _, _, _)
AloneLoop(inp, tools, steps, given) ==
  IF ~ShouldContinue(Len(steps))
  THEN [record |-> ToolRecord(inp, StoppedOutput, steps), rest |-> given]
  ELSE IF given = <<>>
  THEN [record |-> NoOut, rest |-> given]
  ELSE LET step == ToolOutputParser(Complete(Head(given), ToolAgentStop))
           observation == IF step.tool \in AllowedToolNames(tools)
                          THEN CHOOSE r \in ToolResults : TRUE
                          ELSE "invalid"
       IN  CASE step.kind = "FinalAnswer" ->
                  [record |-> ToolRecord(inp, step.text, steps), rest |-> Tail(given)]
             [] step.kind = "ToolCall" ->
                  AloneLoop(inp, tools, Append(steps, Step(step, observation)), Tail(given))
             [] OTHER -> [record |-> NoOut, rest |-> Tail(given)]

AloneMemory(inp, given) ==
  IF given = <<>> THEN NoOut ELSE MemoryRecord(inp, Complete(Head(given), StopNone))

\* the record execute_agent returns to a turn that runs alone and is given
\* these tools and generations
AloneRecord(inp, tools, given) ==
  IF ~RunsToolAgent(tools)
  THEN AloneMemory(inp, given)
  ELSE LET loop == AloneLoop(inp, tools, <<>>, given)
       IN  IF ToolsAreEnough(loop.record.output)
           THEN loop.record
           ELSE AloneMemory(inp, loop.rest)

\* a turn's prompt, tool view, scratchpad and output hang together as they
\* do in a turn that runs alone
OwnState(turn) ==
  /\ Len(turn.intermediate_steps) = turn.iterations
  /\ turn.tool_failures = <<>> => ToolsRun(turn.intermediate_steps) = turn.invoked
  /\ Range(turn.invoked) \subseteq Range(turn.allowed_tools)
  /\ turn.pc = "tool_parse" =>
       /\ turn.llm_request.tools = turn.allowed_tools
       /\ turn.llm_request.scratchpad = turn.intermediate_steps
  /\ turn.pc = "returned" =>
       /\ turn.out # NoOut
       /\ turn.out = AloneRecord(turn.agent_input, turn.allowed_tools, turn.answers)

\* a step of the running turn leaves the waiting turn as it is, and a turn
\* that goes on finds its locals as it left them
C18_OtherTurnUntouched ==
  /\ running' = running => suspended' = suspended
  /\ running' # running => Frame' = suspended /\ suspended' = Frame

\* C18: when two turns run in any interleaving, neither reads nor writes the
\* other's scratchpad, prompt variables, tool view or output, and the record
\* a turn returns is the one it would return alone given the same answers
C18_TurnsIndependent ==
  /\ [](TwoTurns => OwnState(Frame) /\ OwnState(suspended))
  /\ [][C18_OtherTurnUntouched]_vars

\* the second turn has run from its start to its return, with its own tool
\* steps, while the first waits in the middle of its tool loop
C18_Witness ==
  /\ running = 2
  /\ pc = "returned"
  /\ out.intermediate_steps # <<>>
  /\ suspended.pc = "tool_invoke"
  /\ suspended.intermediate_steps # <<>>
  /\ suspended.intermediate_steps # out.intermediate_steps

LoopPcs == {"tool_agent", "tool_loop", "tool_parse", "tool_invoke", "tool_done"}

\* C19, the step: once the memory chain is next or has run, the tool agent
\* is not started and requests no completion
C19_NoToolAgentAfterMemoryChain ==
  (pc = "memory_chain" \/ memory_chain_runs > 0) =>
    /\ tool_agent_runs' = tool_agent_runs
    /\ tool_llm_calls' = tool_llm_calls
    /\ invoked' = invoked
    /\ pc' \notin LoopPcs

\* C19: in a turn the tool agent is started at most once and the memory
\* chain at most once; when both run the tool agent has returned before the
\* memory chain starts and is not run after it; a turn that returns returns
\* the record of one of the two
C19_OrderAndResult ==
  /\ [](/\ tool_agent_runs <= 1
        /\ memory_chain_runs <= 1
        /\ (pc \in LoopPcs => memory_chain_runs = 0 /\ memory_out = NoOut)
        /\ ((pc = "memory_chain" \/ memory_chain_runs = 1) /\ tool_agent_runs = 1) =>
             ToolAgentReturned /\ (out = tool_out \/ pc = "returned")
        /\ (pc = "returned") =>
             /\ out # NoOut
             /\ tool_agent_runs + memory_chain_runs >= 1
             /\ \/ memory_chain_runs = 1 /\ out = memory_out
                \/ memory_chain_runs = 0 /\ tool_agent_runs = 1 /\ out = tool_out)
  /\ [][C19_NoToolAgentAfterMemoryChain]_vars

C19_Witness ==
  /\ pc = "returned"
  /\ tool_agent_runs = 1
  /\ memory_chain_runs = 1
  /\ ToolAgentReturned
  /\ out = memory_out

\* C20: every tool that was run is in the allowed-tool list the hook
\* answered at the start of the turn, whatever names the completions hold
C20_OnlyAllowedToolsRun ==
  /\ Range(invoked) \subseteq Range(allowed_tools)
  /\ \A i \in 1..Len(intermediate_steps) :
       intermediate_steps[i].observation \in ToolResults =>
         intermediate_steps[i].tool \in Range(allowed_tools)
  /\ (pc = "tool_invoke" /\ parsed.tool \notin Range(allowed_tools)) =>
       ~ENABLED ToolLoopInvoke /\ ~ENABLED ToolLoopToolFails

C20_Witness ==
  /\ pc = "tool_loop"
  /\ invoked # <<>>
  /\ \E i \in 1..Len(intermediate_steps) :
       /\ intermediate_steps[i].observation = "invalid"
       /\ intermediate_steps[i].tool \notin Range(allowed_tools)

====
